---- MODULE Spec2Model ----
(***************************************************************************)
(* Plant disease scanner: the pixel analyzer, the health scorer, the       *)
(* condition and urgency classifiers (src/src/utils/imageAnalysis.ts) and  *)
(* the disease selector (src/src/pages/DiseaseScanner.tsx).                *)
(*                                                                         *)
(* Number representation.  The program works in IEEE doubles.  Here        *)
(*   - a percentage is an integer number of hundredths of a percent        *)
(*     (8.7 % is 870), which is exact for the values the program reports   *)
(*     because it rounds them to two decimals;                             *)
(*   - a confidence is an integer number of hundredths of a percent when   *)
(*     it is a percentage (analysisResult.confidence, 90..98) and of       *)
(*     ten-thousandths when it is a fraction (disease.confidence, 0..1),   *)
(*     so that c / 100 is the identity on the representation;              *)
(*   - Math.round(x) of a double x that should be exactly k + 1/2 may see  *)
(*     a double one ulp below the tie, so at an exact tie both k and k + 1 *)
(*     are possible results; off a tie the result is the nearest integer.  *)
(*     Math.ceil(x) of a double that should be exactly k may likewise      *)
(*     yield k or k + 1.                                                   *)
(***************************************************************************)
EXTENDS Integers, Sequences, FiniteSets, TLC

\* ------------------------------------------------------------------------
\* Bounds of the model
\* ------------------------------------------------------------------------

\* Largest number of runs (distinct colours) in one image.
MaxRuns == 3

\* ------------------------------------------------------------------------
\* Program constants
\* ------------------------------------------------------------------------

\* loadImageData limits the canvas to 800 x 600.
MaxCanvasWidth == 800
MaxCanvasHeight == 600

\* ------------------------------------------------------------------------
\* Arithmetic helpers
\* ------------------------------------------------------------------------

Min(a, b) == IF a <= b THEN a ELSE b
Max(a, b) == IF a >= b THEN a ELSE b
Abs(a) == IF a >= 0 THEN a ELSE -a

\* Math.round(n / d), d > 0: the nearest integer, halves towards +infinity;
\* at an exact tie the double may lie just below it and round down.
MathRound(n, d) ==
  LET up == (2 * n + d) \div (2 * d)
  IN  IF (2 * n) % (2 * d) = d THEN {up - 1, up} ELSE {up}

\* Math.ceil(n / d), d > 0, n >= 0: when n / d is an integer k the double
\* quotient may lie just above it and give k + 1.
MathCeil(n, d) ==
  LET q == n \div d
  IN  IF n = 0 THEN {0} ELSE IF n % d = 0 THEN {q, q + 1} ELSE {q + 1}

\* ------------------------------------------------------------------------
\* Images
\* ------------------------------------------------------------------------

\* The colours pixels are drawn from, each <<r, g, b>>:
\*  1 black           black spot, no damage
\*  2 dark purple     black spot and wilting damage
\*  3 just too bright brightness exactly 60: no black spot, no damage
\*  4 brown           browning and wilting damage (counted twice), potential spot
\*  5 mid gray        nothing
\*  6 white           white-patch damage
Palette ==
  << <<0, 0, 0>>, <<20, 10, 20>>, <<60, 60, 60>>, <<120, 55, 75>>,
     <<128, 128, 128>>, <<255, 255, 255>> >>

\* Sizes <<width, height>> of the image files offered to the analyzer; the
\* last two exceed the canvas limit in one dimension.
FileSizes ==
  { <<1, 1>>, <<3, 2>>, <<100, 10>>, <<333, 3>>, <<900, 2>>, <<2, 700>> }

\* Lengths of the runs of an image other than the run that fills the rest.
RunLengths == {1, 5, 30, 87, 117, 120}

RECURSIVE SumOver(_, _)
SumOver(f, S) ==
  IF S = {} THEN 0
  ELSE LET i == CHOOSE j \in S : \A k \in S : j <= k
       IN  f[i] + SumOver(f, S \ {i})

\* The run-length encoding of the pixel data: the runs <<pixel, n>> of the
\* colours in S (in palette order), colour i filling n = len[i] pixels.
RECURSIVE RunsOf(_, _)
RunsOf(len, S) ==
  IF S = {} THEN << >>
  ELSE LET i == CHOOSE j \in S : \A k \in S : j <= k
       IN  << <<Palette[i], len[i]>> >> \o RunsOf(len, S \ {i})

NoImage == [width |-> 0, height |-> 0, data |-> << >>]

\* ------------------------------------------------------------------------
\* Per-pixel predicates
\* ------------------------------------------------------------------------

\* brightness = (r + g + b) / 3 is compared through the sum r + g + b.
ChannelSum(p) == p[1] + p[2] + p[3]
colorVariation(p) == Abs(p[1] - p[2]) + Abs(p[2] - p[3]) + Abs(p[3] - p[1])

\* Variant of IsBlackSpotPixel: brightness <= 60 instead of < 60.
IsBlackSpotPixel_AtMost60(p) == ChannelSum(p) <= 180 /\ colorVariation(p) < 30

\* brightness < 60 && colorVariation < 30
IsBlackSpotPixel(p) == ChannelSum(p) < 180 /\ colorVariation(p) < 30

\* brightness < 100 && r > g && r > b && colorVariation > 40
IsPotentialSpotPixel(p) ==
  ChannelSum(p) < 300 /\ p[1] > p[2] /\ p[1] > p[3] /\ colorVariation(p) > 40

IsYellowing(p) == p[1] > 180 /\ p[2] > 150 /\ p[3] < 100 /\ ChannelSum(p) > 450
IsBrowning(p) ==
  p[1] > 100 /\ p[1] < 180 /\ p[2] > 50 /\ p[2] < 130 /\ p[3] < 80
  /\ ChannelSum(p) < 450
\* g < r * 0.7 && g < b * 0.8 && brightness < 120
IsWilting(p) ==
  10 * p[2] < 7 * p[1] /\ 10 * p[2] < 8 * p[3] /\ ChannelSum(p) < 360
IsWhitePatch(p) ==
  ChannelSum(p) > 600 /\ Abs(p[1] - p[2]) < 20 /\ Abs(p[2] - p[3]) < 20

Bit(b) == IF b THEN 1 ELSE 0

\* How many times one pixel increments damagedPixels: the four tests are
\* independent ifs, so a pixel can be counted more than once.
DamageMatches(p) ==
  Bit(IsYellowing(p)) + Bit(IsBrowning(p)) + Bit(IsWilting(p)) + Bit(IsWhitePatch(p))

\* The loops over data: the tallies after the last pixel.
RECURSIVE blackSpotPixels(_)
blackSpotPixels(data) ==
  IF data = << >> THEN 0
  ELSE Bit(IsBlackSpotPixel(Head(data)[1])) * Head(data)[2] + blackSpotPixels(Tail(data))

RECURSIVE damagedPixels(_)
damagedPixels(data) ==
  IF data = << >> THEN 0
  ELSE DamageMatches(Head(data)[1]) * Head(data)[2] + damagedPixels(Tail(data))

\* ------------------------------------------------------------------------
\* Pixel analyzer
\* ------------------------------------------------------------------------

\* Variant of detectBlackSpots: the flag is taken from the rounded percentage.
detectBlackSpots_FlagFromRounded(img) ==
  LET totalPixels == img.width * img.height
      n == blackSpotPixels(img.data)
  IN  { [hasBlackSpots |-> pct > 10,
         count |-> IF pct > 10 THEN Max(1, estimatedSpotCount) ELSE 0,
         percentage |-> pct] :
          estimatedSpotCount \in MathCeil(50 * n, img.width),
          pct \in MathRound(10000 * n, totalPixels) }

\* detectBlackSpots: the results the call can return (more than one only at
\* a rounding tie).  hasBlackSpots tests the unrounded percentage:
\* (blackSpotPixels / totalPixels) * 100 > 0.1.
detectBlackSpots(img) ==
  LET totalPixels == img.width * img.height
      n == blackSpotPixels(img.data)
      hasBlackSpots == 1000 * n > totalPixels
  IN  { [hasBlackSpots |-> hasBlackSpots,
         count |-> IF hasBlackSpots THEN Max(1, estimatedSpotCount) ELSE 0,
         percentage |-> pct] :
          estimatedSpotCount \in MathCeil(50 * n, img.width),
          pct \in MathRound(10000 * n, totalPixels) }

\* assessDamage: hasDamage tests the unrounded percentage:
\* (damagedPixels / totalPixels) * 100 > 0.5.
assessDamage(img) ==
  LET totalPixels == img.width * img.height
      n == damagedPixels(img.data)
  IN  { [hasDamage |-> 200 * n > totalPixels, percentage |-> pct] :
          pct \in MathRound(10000 * n, totalPixels) }

\* ------------------------------------------------------------------------
\* Health scorer
\* ------------------------------------------------------------------------

\* Variant of ScoreDeductions: the black-spot deduction is capped at 50.
ScoreDeductions_SpotCap50(blackSpots, damage) ==
  << IF blackSpots.hasBlackSpots THEN Min(blackSpots.percentage * 3, 5000) ELSE 0,
     IF damage.hasDamage THEN Min(damage.percentage * 2, 5000) ELSE 0,
     IF blackSpots.percentage > 500 /\ damage.percentage > 1000 THEN 1500 ELSE 0 >>

\* Variant of ScoreDeductions: the combined penalty tests percentage < 5.
ScoreDeductions_PenaltyBelow5(blackSpots, damage) ==
  << IF blackSpots.hasBlackSpots THEN Min(blackSpots.percentage * 3, 4000) ELSE 0,
     IF damage.hasDamage THEN Min(damage.percentage * 2, 5000) ELSE 0,
     IF blackSpots.percentage < 500 /\ damage.percentage > 1000 THEN 1500 ELSE 0 >>

\* Variant of ScoreDeductions: the black-spot deduction is not capped.
ScoreDeductions_NoSpotCap(blackSpots, damage) ==
  << IF blackSpots.hasBlackSpots THEN blackSpots.percentage * 3 ELSE 0,
     IF damage.hasDamage THEN Min(damage.percentage * 2, 5000) ELSE 0,
     IF blackSpots.percentage > 500 /\ damage.percentage > 1000 THEN 1500 ELSE 0 >>

\* The three deductions of calculateHealthScore, in hundredths of a point.
ScoreDeductions(blackSpots, damage) ==
  << IF blackSpots.hasBlackSpots THEN Min(blackSpots.percentage * 3, 4000) ELSE 0,
     IF damage.hasDamage THEN Min(damage.percentage * 2, 5000) ELSE 0,
     IF blackSpots.percentage > 500 /\ damage.percentage > 1000 THEN 1500 ELSE 0 >>

\* Variant of calculateHealthScore: the result is not clamped at 0.
calculateHealthScore_NoClamp(blackSpots, damage) ==
  LET d == ScoreDeductions(blackSpots, damage)
  IN  MathRound(10000 - d[1] - d[2] - d[3], 100)

\* calculateHealthScore: Math.max(0, Math.round(healthScore)); the set of
\* results the call can return (two only at a rounding tie).
calculateHealthScore(blackSpots, damage) ==
  LET d == ScoreDeductions(blackSpots, damage)
  IN  { Max(0, r) : r \in MathRound(10000 - d[1] - d[2] - d[3], 100) }

\* ------------------------------------------------------------------------
\* Condition classifier, issue list, urgency classifier
\* ------------------------------------------------------------------------

\* Variant of determineOverallCondition: healthy does not look at the flags.
determineOverallCondition_IgnoreFlags(healthScore, hasBlackSpots, hasDamage) ==
  IF healthScore >= 85 THEN "healthy"
  ELSE IF healthScore >= 70 THEN "mild_damage"
  ELSE IF healthScore >= 50 THEN "moderate_damage"
  ELSE IF healthScore >= 30 THEN "severe_damage"
  ELSE "critical"

determineOverallCondition(healthScore, hasBlackSpots, hasDamage) ==
  IF healthScore >= 85 /\ ~hasBlackSpots /\ ~hasDamage THEN "healthy"
  ELSE IF healthScore >= 70 THEN "mild_damage"
  ELSE IF healthScore >= 50 THEN "moderate_damage"
  ELSE IF healthScore >= 30 THEN "severe_damage"
  ELSE "critical"

\* generateIssuesList, each message reduced to its kind.
generateIssuesList(blackSpots, damage, healthScore) ==
  (IF blackSpots.hasBlackSpots
     THEN IF blackSpots.percentage > 1000 THEN <<"severe_black_spot">>
          ELSE IF blackSpots.percentage > 300 THEN <<"moderate_black_spot">>
          ELSE <<"minor_black_spots">>
     ELSE << >>)
  \o
  (IF damage.hasDamage
     THEN IF damage.percentage > 2000 THEN <<"extensive_damage">>
          ELSE IF damage.percentage > 1000 THEN <<"moderate_damage">>
          ELSE <<"minor_damage">>
     ELSE << >>)
  \o
  (IF healthScore < 50 THEN <<"severe_stress">> ELSE << >>)

IssuesOrNone(issues) == IF issues = << >> THEN <<"no_issues">> ELSE issues

\* Variant of assessPlantHealth: the low tier accepts black spots below 10 %.
assessPlantHealth_LowBelow10(r) ==
  IF r.healthScore >= 85 /\ ~r.hasBlackSpots /\ ~r.hasDamage
    THEN [isHealthy |-> TRUE, condition |-> "Excellent Health",
          healthPercentage |-> r.healthScore, urgency |-> "none"]
  ELSE IF r.healthScore >= 70 /\ (~r.hasBlackSpots \/ r.blackSpotPercentage < 1000)
    THEN [isHealthy |-> TRUE, condition |-> "Good Health",
          healthPercentage |-> r.healthScore, urgency |-> "low"]
  ELSE IF r.healthScore >= 50 /\ (r.blackSpotPercentage < 1500 \/ r.damagePercentage < 2000)
    THEN [isHealthy |-> FALSE, condition |-> "Moderate Issues",
          healthPercentage |-> r.healthScore, urgency |-> "medium"]
  ELSE IF r.healthScore >= 30 /\ (r.blackSpotPercentage < 3000 \/ r.damagePercentage < 4000)
    THEN [isHealthy |-> FALSE, condition |-> "Severe Disease",
          healthPercentage |-> r.healthScore, urgency |-> "high"]
  ELSE [isHealthy |-> FALSE, condition |-> "Critical Condition",
        healthPercentage |-> r.healthScore, urgency |-> "critical"]

\* assessPlantHealth (the recommendations follow the tier and are left out).
assessPlantHealth(r) ==
  IF r.healthScore >= 85 /\ ~r.hasBlackSpots /\ ~r.hasDamage
    THEN [isHealthy |-> TRUE, condition |-> "Excellent Health",
          healthPercentage |-> r.healthScore, urgency |-> "none"]
  ELSE IF r.healthScore >= 70 /\ (~r.hasBlackSpots \/ r.blackSpotPercentage < 500)
    THEN [isHealthy |-> TRUE, condition |-> "Good Health",
          healthPercentage |-> r.healthScore, urgency |-> "low"]
  ELSE IF r.healthScore >= 50 /\ (r.blackSpotPercentage < 1500 \/ r.damagePercentage < 2000)
    THEN [isHealthy |-> FALSE, condition |-> "Moderate Issues",
          healthPercentage |-> r.healthScore, urgency |-> "medium"]
  ELSE IF r.healthScore >= 30 /\ (r.blackSpotPercentage < 3000 \/ r.damagePercentage < 4000)
    THEN [isHealthy |-> FALSE, condition |-> "Severe Disease",
          healthPercentage |-> r.healthScore, urgency |-> "high"]
  ELSE [isHealthy |-> FALSE, condition |-> "Critical Condition",
        healthPercentage |-> r.healthScore, urgency |-> "critical"]

\* ------------------------------------------------------------------------
\* Disease selector
\* ------------------------------------------------------------------------

\* The entries of comprehensiveDiseases the selector uses (0-based 0, 1, 2),
\* reduced to the fields that are stored or classified.  The third entry
\* has no urgency field.
comprehensiveDiseases ==
  << [name |-> "Black Spot Disease", confidence |-> 9500, severity |-> "severe",
      urgency |-> "high"],
     [name |-> "Powdery Mildew", confidence |-> 8500, severity |-> "moderate",
      urgency |-> "medium"],
     [name |-> "Bacterial Leaf Spot", confidence |-> 8800, severity |-> "moderate",
      urgency |-> "undefined"] >>

HealthyPlant ==
  [name |-> "Healthy Plant", confidence |-> 9500, severity |-> "none",
   urgency |-> "none"]

\* Variant of selectDiseaseBasedOnAnalysis: the first branch needs more than 3 %.
selectDiseaseBasedOnAnalysis_Above3(r) ==
  IF r.hasBlackSpots /\ r.blackSpotPercentage > 300
    THEN [comprehensiveDiseases[1] EXCEPT !.confidence = Min(9500, r.confidence)]
  ELSE IF r.hasDamage /\ r.damagePercentage > 1000
    THEN [comprehensiveDiseases[2] EXCEPT !.confidence = Min(8800, r.confidence)]
  ELSE IF r.healthScore < 60
    THEN [comprehensiveDiseases[3] EXCEPT !.confidence = Min(8200, r.confidence)]
  ELSE IF r.healthScore >= 85
    THEN HealthyPlant
  ELSE [comprehensiveDiseases[2] EXCEPT !.confidence = Min(7500, r.confidence)]

\* Variant of selectDiseaseBasedOnAnalysis: the second branch needs more
\* than 30 % damage.
selectDiseaseBasedOnAnalysis_DamageAbove30(r) ==
  IF r.hasBlackSpots /\ r.blackSpotPercentage > 200
    THEN [comprehensiveDiseases[1] EXCEPT !.confidence = Min(9500, r.confidence)]
  ELSE IF r.hasDamage /\ r.damagePercentage > 3000
    THEN [comprehensiveDiseases[2] EXCEPT !.confidence = Min(8800, r.confidence)]
  ELSE IF r.healthScore < 60
    THEN [comprehensiveDiseases[3] EXCEPT !.confidence = Min(8200, r.confidence)]
  ELSE IF r.healthScore >= 85
    THEN HealthyPlant
  ELSE [comprehensiveDiseases[2] EXCEPT !.confidence = Min(7500, r.confidence)]

\* selectDiseaseBasedOnAnalysis of scanImage.
selectDiseaseBasedOnAnalysis(r) ==
  IF r.hasBlackSpots /\ r.blackSpotPercentage > 200
    THEN [comprehensiveDiseases[1] EXCEPT !.confidence = Min(9500, r.confidence)]
  ELSE IF r.hasDamage /\ r.damagePercentage > 1000
    THEN [comprehensiveDiseases[2] EXCEPT !.confidence = Min(8800, r.confidence)]
  ELSE IF r.healthScore < 60
    THEN [comprehensiveDiseases[3] EXCEPT !.confidence = Min(8200, r.confidence)]
  ELSE IF r.healthScore >= 85
    THEN HealthyPlant
  ELSE [comprehensiveDiseases[2] EXCEPT !.confidence = Min(7500, r.confidence)]

\* ------------------------------------------------------------------------
\* State
\* ------------------------------------------------------------------------

VARIABLES
  pc,                \* the next step of the analysis of one image
  imageData,         \* the decoded canvas: width, height, run-length pixel data
  blackSpotAnalysis, \* result of detectBlackSpots
  damageAnalysis,    \* result of assessDamage
  healthScore,       \* result of calculateHealthScore, -1 before
  imageQuality,      \* result of assessImageQuality, -1 before
  analysisResult,    \* the ImageAnalysisResult analyzeImage returns
  plantHealth,       \* the PlantHealthAssessment
  detectedDisease,   \* the entry selectDiseaseBasedOnAnalysis returns
  otherPercentage,   \* a second blackSpotPercentage for the same statistics
  otherScore         \* calculateHealthScore with otherPercentage, -1 before

\* The DiseaseScanner component around the analyzer. In the specifications
\* of the component, pc is the position of scanImage, analysisResult and
\* detectedDisease are its locals and plantHealth is the component's state
\* of that name.
VARIABLES
  mounted,           \* the component is on the page
  user,              \* state user, "null" before the session resolves
  sessionPending,    \* getSession() of the mount effect has not resolved
  selectedImage,     \* state selectedImage, "null" or a file name
  imagePreview,      \* state imagePreview, "null" or the data URL of a file
  previewReads,      \* files a FileReader of handleImageSelect is reading
  scanning,          \* state scanning
  analysisProgress,  \* state analysisProgress
  imageAnalysis,     \* state imageAnalysis, None before the first analysis
  scanResult,        \* state scanResult, None before the first result
  realTimeAccuracy,  \* state realTimeAccuracy, hundredths of a percent
  detectionStats,    \* state detectionStats
  recentScans,       \* state recentScans
  cameraMode,        \* state cameraMode
  cameraPending,     \* getUserMedia() calls that have not settled
  liveStreams,       \* camera streams acquired and not stopped
  videoSrc,          \* videoRef.current.srcObject: "null" or "stream"
  cameraErrors,      \* "Camera Error" notices shown
  lastToast,         \* the notice shown last
  scanCount,         \* scans started so far; the running scan has this number
  closure,           \* what the running scanImage captured when it was called
  timers,            \* scans whose progress interval has not been cleared
  store,             \* rows of table disease_detections, oldest first
  fetches,           \* fetchRecentScans calls that have not resolved
  scanLog,           \* per scan: what it has done so far
  shownFrom          \* which scan set imageAnalysis, plantHealth, scanResult

componentVars ==
  << mounted, user, sessionPending, selectedImage, imagePreview, previewReads,
     scanning, analysisProgress, imageAnalysis, scanResult, realTimeAccuracy,
     detectionStats, recentScans, cameraMode, cameraPending, liveStreams,
     videoSrc, cameraErrors, lastToast, scanCount, closure, timers, store,
     fetches, scanLog, shownFrom >>

vars ==
  << pc, imageData, blackSpotAnalysis, damageAnalysis, healthScore, imageQuality,
     analysisResult, plantHealth, detectedDisease, otherPercentage, otherScore,
     componentVars >>

None == [none |-> TRUE]

\* analysisResult.confidence = Math.min(90 + Math.random() * 8, 98), in
\* hundredths of a percent: one value below and one above the 0.95 cap.
Confidences == {9000, 9799}

\* assessImageQuality returns 50 + min(sharpness * 2, 30) + min(avgContrast / 5, 20)
\* capped at 95; the gradient scan itself is not modelled, only its range.
QualityValues == {50, 95}

\* The component's state after construction: the useState initial values,
\* nothing selected, no camera, no scan, the session not yet resolved.
\* detectionStats keeps avgConfidence * totalScans as confidenceSum, so
\* avgConfidence is confidenceSum / totalScans; processingTime (wall-clock
\* milliseconds) is left out.
ComponentMounted ==
  /\ mounted = TRUE
  /\ user = "null"
  /\ sessionPending = TRUE
  /\ selectedImage = "null"
  /\ imagePreview = "null"
  /\ previewReads = {}
  /\ scanning = FALSE
  /\ analysisProgress = 0
  /\ imageAnalysis = None
  /\ scanResult = None
  /\ realTimeAccuracy = 0
  /\ detectionStats = [totalScans |-> 0, accurateDetections |-> 0, confidenceSum |-> 0]
  /\ recentScans = << >>
  /\ cameraMode = FALSE
  /\ cameraPending = 0
  /\ liveStreams = 0
  /\ videoSrc = "null"
  /\ cameraErrors = 0
  /\ lastToast = "none"
  /\ scanCount = 0
  /\ closure = None
  /\ timers = {}
  /\ fetches = [sent |-> 0, read |-> {}]
  /\ scanLog = << >>
  /\ shownFrom = [imageAnalysis |-> 0, plantHealth |-> 0, scanResult |-> 0]

\* The analyzer on its own: the component is idle and its table is empty.
ComponentIdle ==
  /\ ComponentMounted
  /\ store = << >>

\* ------------------------------------------------------------------------
\* analyzeImage, step by step
\* ------------------------------------------------------------------------

Init ==
  /\ pc = "loadImageData"
  /\ imageData = NoImage
  /\ blackSpotAnalysis = None
  /\ damageAnalysis = None
  /\ healthScore = -1
  /\ imageQuality = -1
  /\ analysisResult = None
  /\ plantHealth = None
  /\ detectedDisease = None
  /\ otherPercentage = -1
  /\ otherScore = -1
  /\ ComponentIdle

\* loadImageData resolves: the canvas takes the file's size limited to
\* 800 x 600 and the image is drawn into it.
LoadImageData ==
  /\ pc = "loadImageData"
  /\ \E size \in FileSizes, fill \in 1..Len(Palette) :
       \E others \in SUBSET ((1..Len(Palette)) \ {fill}) :
         /\ Cardinality(others) < MaxRuns
         /\ \E len \in [others -> RunLengths] :
              LET width == Min(size[1], MaxCanvasWidth)
                  height == Min(size[2], MaxCanvasHeight)
                  rest == width * height - SumOver(len, others)
                  all == [i \in others \cup {fill} |-> IF i = fill THEN rest ELSE len[i]]
              IN  /\ rest > 0
                  /\ imageData' = [width |-> width, height |-> height,
                                   data |-> RunsOf(all, others \cup {fill})]
  /\ pc' = "detectBlackSpots"
  /\ UNCHANGED << blackSpotAnalysis, damageAnalysis, healthScore, imageQuality,
                  analysisResult, plantHealth, detectedDisease, otherPercentage,
                  otherScore, componentVars >>

\* loadImageData rejects (reader.onerror, img.onerror): analyzeImage throws.
LoadImageFails ==
  /\ pc = "loadImageData"
  /\ pc' = "failed"
  /\ UNCHANGED << imageData, blackSpotAnalysis, damageAnalysis, healthScore,
                  imageQuality, analysisResult, plantHealth, detectedDisease,
                  otherPercentage, otherScore, componentVars >>

DetectBlackSpots ==
  /\ pc = "detectBlackSpots"
  /\ blackSpotAnalysis' \in detectBlackSpots(imageData)
  /\ pc' = "assessDamage"
  /\ UNCHANGED << imageData, damageAnalysis, healthScore, imageQuality,
                  analysisResult, plantHealth, detectedDisease, otherPercentage,
                  otherScore, componentVars >>

AssessDamage ==
  /\ pc = "assessDamage"
  /\ damageAnalysis' \in assessDamage(imageData)
  /\ pc' = "calculateHealthScore"
  /\ UNCHANGED << imageData, blackSpotAnalysis, healthScore, imageQuality,
                  analysisResult, plantHealth, detectedDisease, otherPercentage,
                  otherScore, componentVars >>

CalculateHealthScore ==
  /\ pc = "calculateHealthScore"
  /\ healthScore' \in calculateHealthScore(blackSpotAnalysis, damageAnalysis)
  /\ pc' = "assessImageQuality"
  /\ UNCHANGED << imageData, blackSpotAnalysis, damageAnalysis, imageQuality,
                  analysisResult, plantHealth, detectedDisease, otherPercentage,
                  otherScore, componentVars >>

AssessImageQuality ==
  /\ pc = "assessImageQuality"
  /\ imageQuality' \in QualityValues
  /\ pc' = "returnResult"
  /\ UNCHANGED << imageData, blackSpotAnalysis, damageAnalysis, healthScore,
                  analysisResult, plantHealth, detectedDisease, otherPercentage,
                  otherScore, componentVars >>

\* The ImageAnalysisResult analyzeImage builds from the statistics, the
\* score, the confidence and the image quality.
ImageAnalysisResult(blackSpots, damage, score, confidence, quality) ==
  [hasBlackSpots |-> blackSpots.hasBlackSpots,
   blackSpotCount |-> blackSpots.count,
   blackSpotPercentage |-> blackSpots.percentage,
   hasDamage |-> damage.hasDamage,
   damagePercentage |-> damage.percentage,
   healthScore |-> score,
   overallCondition |->
     determineOverallCondition(score, blackSpots.hasBlackSpots, damage.hasDamage),
   detectedIssues |-> IssuesOrNone(generateIssuesList(blackSpots, damage, score)),
   confidence |-> confidence,
   imageQuality |-> quality]

\* The rest of analyzeImage: classify, list the issues, build the result.
ReturnResult ==
  /\ pc = "returnResult"
  /\ \E confidence \in Confidences :
       analysisResult' = ImageAnalysisResult(blackSpotAnalysis, damageAnalysis,
                                             healthScore, confidence, imageQuality)
  /\ pc' = "assessPlantHealth"
  /\ UNCHANGED << imageData, blackSpotAnalysis, damageAnalysis, healthScore,
                  imageQuality, plantHealth, detectedDisease, otherPercentage,
                  otherScore, componentVars >>

AssessPlantHealth ==
  /\ pc = "assessPlantHealth"
  /\ plantHealth' = assessPlantHealth(analysisResult)
  /\ pc' = "selectDisease"
  /\ UNCHANGED << imageData, blackSpotAnalysis, damageAnalysis, healthScore,
                  imageQuality, analysisResult, detectedDisease, otherPercentage,
                  otherScore, componentVars >>

SelectDisease ==
  /\ pc = "selectDisease"
  /\ detectedDisease' = selectDiseaseBasedOnAnalysis(analysisResult)
  /\ pc' = "done"
  /\ UNCHANGED << imageData, blackSpotAnalysis, damageAnalysis, healthScore,
                  imageQuality, analysisResult, plantHealth, otherPercentage,
                  otherScore, componentVars >>

Next ==
  \/ LoadImageData
  \/ LoadImageFails
  \/ DetectBlackSpots
  \/ AssessDamage
  \/ CalculateHealthScore
  \/ AssessImageQuality
  \/ ReturnResult
  \/ AssessPlantHealth
  \/ SelectDisease

Spec == Init /\ [][Next]_vars

\* ------------------------------------------------------------------------
\* The health scorer on arbitrary statistics
\* ------------------------------------------------------------------------

\* Percentages (hundredths of a percent) offered to the scorer directly:
\* around the thresholds 0.1, 2, 3, 5, 10, 15 and 30, the cap of each
\* deduction (13.33 * 3 < 40 < 13.34 * 3, 25 * 2 = 50) and the extremes.
PercentageInputs ==
  {0, 4, 10, 50, 200, 201, 300, 499, 500, 501, 870, 1000, 1333, 1334, 1500, 3000, 10000}
DamageInputs ==
  {0, 50, 51, 1000, 1001, 1200, 1819, 2000, 2340, 2500, 4000, 10000, 20000}

InitScorer ==
  /\ pc = "calculateHealthScore"
  /\ imageData = NoImage
  /\ \E hasBlackSpots \in BOOLEAN, percentage \in PercentageInputs :
       blackSpotAnalysis =
         [hasBlackSpots |-> hasBlackSpots, count |-> Bit(hasBlackSpots),
          percentage |-> percentage]
  /\ \E hasDamage \in BOOLEAN, percentage \in DamageInputs :
       damageAnalysis = [hasDamage |-> hasDamage, percentage |-> percentage]
  /\ healthScore = -1
  /\ imageQuality = -1
  /\ analysisResult = None
  /\ plantHealth = None
  /\ detectedDisease = None
  /\ otherPercentage \in PercentageInputs
  /\ otherScore = -1
  /\ ComponentIdle

\* calculateHealthScore applied to the same statistics with otherPercentage
\* as the black-spot percentage.  The same operands give the same double,
\* so equal deductions give the score already computed.
CalculateHealthScoreOther ==
  /\ pc = "assessImageQuality"
  /\ otherPercentage # -1
  /\ otherScore = -1
  /\ LET other == [blackSpotAnalysis EXCEPT !.percentage = otherPercentage]
     IN  /\ otherScore' \in calculateHealthScore(other, damageAnalysis)
         /\ ScoreDeductions(other, damageAnalysis)
              = ScoreDeductions(blackSpotAnalysis, damageAnalysis)
            => otherScore' = healthScore
  /\ UNCHANGED << pc, imageData, blackSpotAnalysis, damageAnalysis, healthScore,
                  imageQuality, analysisResult, plantHealth, detectedDisease,
                  otherPercentage, componentVars >>

NextScorer ==
  \/ CalculateHealthScore
  \/ CalculateHealthScoreOther

SpecScorer == InitScorer /\ [][NextScorer]_vars

\* ------------------------------------------------------------------------
\* The classifiers and the disease selector on arbitrary results
\* ------------------------------------------------------------------------

\* Health scores offered to the classifiers directly: both sides of every
\* threshold (30, 50, 60, 70, 85) and the extremes.
ScoreInputs == {0, 12, 29, 30, 34, 49, 50, 59, 60, 69, 70, 72, 84, 85, 100}

ClassifierPercentages == {0, 10, 200, 201, 300, 499, 500, 870, 1500, 3000}
ClassifierDamages == {0, 50, 1000, 1001, 1200, 2000, 2340, 4000}

InitClassifier ==
  /\ pc = "assessImageQuality"
  /\ imageData = NoImage
  /\ \E hasBlackSpots \in BOOLEAN, percentage \in ClassifierPercentages :
       blackSpotAnalysis =
         [hasBlackSpots |-> hasBlackSpots, count |-> Bit(hasBlackSpots),
          percentage |-> percentage]
  /\ \E hasDamage \in BOOLEAN, percentage \in ClassifierDamages :
       damageAnalysis = [hasDamage |-> hasDamage, percentage |-> percentage]
  /\ healthScore \in ScoreInputs
  /\ imageQuality = -1
  /\ analysisResult = None
  /\ plantHealth = None
  /\ detectedDisease = None
  /\ otherPercentage = -1
  /\ otherScore = -1
  /\ ComponentIdle

NextClassifier ==
  \/ AssessImageQuality
  \/ ReturnResult
  \/ AssessPlantHealth
  \/ SelectDisease

SpecClassifier == InitClassifier /\ [][NextClassifier]_vars

\* ------------------------------------------------------------------------
\* The DiseaseScanner component: session, image selection, scan, store
\* ------------------------------------------------------------------------

\* Scans started in one run of the model.
MaxScans == 2

\* fetchRecentScans: .limit(5).
RecentLimit == 5

\* Math.min(analysisResult.confidence, 98), in hundredths of a percent.
AccuracyCap == 9800

\* detectionStats counts a detection as accurate above 80 %.
AccurateAbove == 8000

\* The progress interval stops at 85.
ProgressCeiling == 85

\* assessImageQuality on an image without contrast: qualityScore = 50.
UniformImageQuality == 50

\* The signed-in users getSession() can report.
Users == {"u1"}

\* The files the file input can deliver.
Files == {"leaf.jpg"}

\* Math.random() * 12 of one progress tick, in whole percent.
ProgressSteps == {5, 11}

\* What the insert of a scan can report: no error, error code 42703
\* (undefined column), or any other error.
InsertErrors == {"none", "42703", "other"}

\* The scans offered: the decoded image of the file, one pixel each (a
\* clean leaf, a black spot, a browning and wilting leaf), and the random
\* confidence analyzeImage draws for it.
ScanInputs ==
  { [image |-> [width |-> 1, height |-> 1, data |-> << <<in[1], 1>> >>],
     confidence |-> in[2]] :
      in \in { << <<128, 128, 128>>, 9000 >>, << <<0, 0, 0>>, 9799 >>,
               << <<120, 55, 75>>, 9000 >> } }

\* analyzeImage on a decoded image: the results it can resolve with.
analyzeImage(img) ==
  UNION { UNION { { ImageAnalysisResult(blackSpots, damage, score, confidence,
                                        UniformImageQuality) :
                      score \in calculateHealthScore(blackSpots, damage),
                      confidence \in Confidences } :
                  damage \in assessDamage(img) } :
          blackSpots \in detectBlackSpots(img) }

\* Variant of InsertRow: the analyzer's confidence and the image quality
\* are written as confidence_score and health_score.
InsertRow_AnalyzerFigures(scan, userId, disease, result) ==
  [scan |-> scan,
   user_id |-> userId,
   detected_disease |-> disease.name,
   confidence_score |-> result.confidence,
   severity |-> disease.severity,
   black_spots_detected |-> result.hasBlackSpots,
   damage_percentage |-> result.damagePercentage,
   health_score |-> result.imageQuality,
   image_quality |-> result.imageQuality]

\* The row scanImage hands to insert(); treatment_recommendations and
\* crop_name are constants of the disease entry and left out.  scan is the
\* number of the scan the row comes from, standing for the row's identity.
InsertRow(scan, userId, disease, result) ==
  [scan |-> scan,
   user_id |-> userId,
   detected_disease |-> disease.name,
   confidence_score |-> disease.confidence,
   severity |-> disease.severity,
   black_spots_detected |-> result.hasBlackSpots,
   damage_percentage |-> result.damagePercentage,
   health_score |-> result.healthScore,
   image_quality |-> result.imageQuality]

\* What the table keeps of a row it accepts: every column as written (the
\* table's definition is not part of the sources; the persisted scan row
\* is specified as holding these fields).
StoredRow(row) == row

\* Variant of insert: with error 42703 the row is written all the same.
insert_WritesDespite42703(rows, error, row) ==
  IF error \in {"none", "42703"} THEN Append(rows, StoredRow(row)) ELSE rows

\* from('disease_detections').insert(row) on the table: the row is added
\* unless the call reports an error.
insert(rows, error, row) ==
  IF error = "none" THEN Append(rows, StoredRow(row)) ELSE rows

\* The ScanResult scanImage builds (enhancedResult), reduced to the fields
\* computed from the scan (plantHealth and dataPoints are random numbers
\* for display); realAccuracy is in hundredths of a percent and the
\* disease confidence in ten-thousandths.
EnhancedResult(disease, result) ==
  [disease |-> disease,
   riskLevel |-> disease.severity,
   realTimeAccuracy |-> Min(result.confidence, AccuracyCap) \div 100,
   imageQuality |-> result.imageQuality,
   modelConfidence |-> disease.confidence \div 100]

\* The rows the user left in the table in earlier sessions (scan 0), one
\* fewer than fetchRecentScans reads.
OldRows ==
  [i \in 1..(RecentLimit - 1) |->
     InsertRow(0, "u1", HealthyPlant,
               CHOOSE r \in UNION {analyzeImage(in.image) : in \in ScanInputs} :
                 ~r.hasBlackSpots /\ ~r.hasDamage /\ r.confidence = 9000)]

\* The query of fetchRecentScans on the table: the user's rows, newest
\* first, at most RecentLimit of them.
RecentRows(rows, userId) ==
  LET mine == SelectSeq(rows, LAMBDA r : r.user_id = userId)
      n == Len(mine)
  IN  [i \in 1..Min(n, RecentLimit) |-> mine[n + 1 - i]]

\* fetchRecentScans is called: one more query is on its way.
FetchCalled == [fetches EXCEPT !.sent = @ + 1]


\* The analyzer's own intermediate values, unused by the component.
analyzerVars ==
  << imageData, blackSpotAnalysis, damageAnalysis, healthScore, imageQuality,
     otherPercentage, otherScore >>

selectionVars == << selectedImage, imagePreview, previewReads >>

cameraVars == << cameraMode, cameraPending, liveStreams, videoSrc, cameraErrors >>

\* The state a scan sets.
scanVars ==
  << pc, analysisResult, detectedDisease, scanning, analysisProgress,
     imageAnalysis, plantHealth, scanResult, realTimeAccuracy, detectionStats,
     scanCount, closure, timers, scanLog, shownFrom >>

\* The component right after construction, in front of a table that holds
\* the user's rows of earlier sessions.
InitScan ==
  /\ pc = "idle"
  /\ imageData = NoImage
  /\ blackSpotAnalysis = None
  /\ damageAnalysis = None
  /\ healthScore = -1
  /\ imageQuality = -1
  /\ analysisResult = None
  /\ plantHealth = None
  /\ detectedDisease = None
  /\ otherPercentage = -1
  /\ otherScore = -1
  /\ ComponentMounted
  /\ store = OldRows

\* The mount effect: getSession() resolves, with a user or without; with a
\* user, fetchRecentScans is called.
GetSessionResolves ==
  /\ sessionPending
  /\ sessionPending' = FALSE
  /\ \E u \in Users \cup {"null"} :
       /\ user' = u
       /\ fetches' = IF u # "null" THEN FetchCalled ELSE fetches
  /\ UNCHANGED << mounted, selectionVars, cameraVars, scanVars, analyzerVars,
                  recentScans, lastToast, store >>

\* handleImageSelect with a file: the file is selected and a FileReader
\* starts reading it for the preview.
HandleImageSelect ==
  /\ mounted
  /\ \E file \in Files :
       /\ selectedImage' = file
       /\ previewReads' = previewReads \cup {file}
  /\ UNCHANGED << mounted, user, sessionPending, imagePreview, cameraVars,
                  scanVars, analyzerVars, recentScans, lastToast, store, fetches >>

\* reader.onload of handleImageSelect.
PreviewLoaded ==
  /\ \E file \in previewReads :
       /\ imagePreview' = file
       /\ previewReads' = previewReads \ {file}
  /\ UNCHANGED << mounted, user, sessionPending, selectedImage, cameraVars,
                  scanVars, analyzerVars, recentScans, lastToast, store, fetches >>

\* Variant of ScanImageRejected: the scan is started all the same.
ScanImageRejected_StartsScan ==
  /\ mounted
  /\ selectedImage = "null" \/ user = "null"
  /\ lastToast' = "validation"
  /\ scanning' = TRUE
  /\ UNCHANGED << mounted, user, sessionPending, selectionVars, cameraVars,
                  pc, analysisResult, detectedDisease, analysisProgress,
                  imageAnalysis, plantHealth, scanResult, realTimeAccuracy,
                  detectionStats, scanCount, closure, timers, scanLog, shownFrom,
                  analyzerVars, recentScans, store, fetches >>

\* scanImage without a selected image or without a user: the validation
\* notice, then return.  (The scan button is disabled in these states; this
\* is the handler's own check.)
ScanImageRejected ==
  /\ mounted
  /\ selectedImage = "null" \/ user = "null"
  /\ lastToast' = "validation"
  /\ UNCHANGED << mounted, user, sessionPending, selectionVars, cameraVars,
                  scanVars, analyzerVars, recentScans, store, fetches >>

\* Variant of ScanImage: the scan button stays enabled while scanning.
ScanImage_ButtonEnabledWhileScanning ==
  /\ mounted
  /\ selectedImage # "null" /\ user # "null"
  /\ scanCount < MaxScans
  /\ scanCount' = scanCount + 1
  /\ scanning' = TRUE
  /\ analysisProgress' = 15
  /\ timers' = timers \cup {scanCount + 1}
  /\ lastToast' = "starting"
  /\ closure' = [user |-> user, selectedImage |-> selectedImage,
                 realTimeAccuracy |-> realTimeAccuracy]
  /\ analysisResult' = None
  /\ detectedDisease' = None
  /\ pc' = "analyzeImage"
  /\ scanLog' = Append(scanLog, [status |-> "running", analyzeCalls |-> 1,
                                 insertAttempts |-> 0, insertError |-> "none",
                                 errorToasts |-> 0, stages |-> << >>,
                                 result |-> None, disease |-> None])
  /\ UNCHANGED << mounted, user, sessionPending, selectionVars, cameraVars,
                  imageAnalysis, plantHealth, scanResult, realTimeAccuracy,
                  detectionStats, shownFrom, analyzerVars, recentScans, store,
                  fetches >>

\* scanImage up to its first await: scanning on, progress 0 then 15, the
\* progress interval started, the start notice, analyzeImage called.  The
\* button that calls it is disabled while scanning.
ScanImage ==
  /\ mounted
  /\ selectedImage # "null" /\ user # "null"
  /\ ~scanning
  /\ scanCount < MaxScans
  /\ scanCount' = scanCount + 1
  /\ scanning' = TRUE
  /\ analysisProgress' = 15
  /\ timers' = timers \cup {scanCount + 1}
  /\ lastToast' = "starting"
  /\ closure' = [user |-> user, selectedImage |-> selectedImage,
                 realTimeAccuracy |-> realTimeAccuracy]
  /\ analysisResult' = None
  /\ detectedDisease' = None
  /\ pc' = "analyzeImage"
  /\ scanLog' = Append(scanLog, [status |-> "running", analyzeCalls |-> 1,
                                 insertAttempts |-> 0, insertError |-> "none",
                                 errorToasts |-> 0, stages |-> << >>,
                                 result |-> None, disease |-> None])
  /\ UNCHANGED << mounted, user, sessionPending, selectionVars, cameraVars,
                  imageAnalysis, plantHealth, scanResult, realTimeAccuracy,
                  detectionStats, shownFrom, analyzerVars, recentScans, store,
                  fetches >>

\* One tick of a progress interval: at ProgressCeiling or above it clears
\* itself and sets the ceiling, below it adds a random step.
ProgressTick ==
  /\ \E timer \in timers :
       IF analysisProgress >= ProgressCeiling
         THEN /\ timers' = timers \ {timer}
              /\ analysisProgress' = ProgressCeiling
         ELSE /\ timers' = timers
              /\ \E step \in ProgressSteps : analysisProgress' = analysisProgress + step
  /\ UNCHANGED << mounted, user, sessionPending, selectionVars, cameraVars,
                  pc, analysisResult, detectedDisease, scanning, imageAnalysis,
                  plantHealth, scanResult, realTimeAccuracy, detectionStats,
                  scanCount, closure, scanLog, shownFrom, analyzerVars,
                  recentScans, lastToast, store, fetches >>

\* analyzeImage resolves: the image was decoded, analysed, scored and
\* classified.  scanImage sets imageAnalysis, awaits assessPlantHealth (no
\* timer or event can run in between), sets plantHealth, selects the
\* disease and starts the 500 ms timeout, with the progress at 35, 55, 75.
AnalyzeImageResolves ==
  /\ pc = "analyzeImage"
  /\ \E in \in ScanInputs :
       \E result \in analyzeImage(in.image) :
         /\ result.confidence = in.confidence
         /\ analysisResult' = result
         /\ imageAnalysis' = result
         /\ plantHealth' = assessPlantHealth(result)
         /\ detectedDisease' = selectDiseaseBasedOnAnalysis(result)
         /\ scanLog' = [scanLog EXCEPT
                          ![scanCount].stages =
                            @ \o <<"decode", "analyze", "score", "classify">>,
                          ![scanCount].result = result,
                          ![scanCount].disease = selectDiseaseBasedOnAnalysis(result)]
  /\ analysisProgress' = 75
  /\ shownFrom' = [shownFrom EXCEPT !.imageAnalysis = scanCount,
                                    !.plantHealth = scanCount]
  /\ pc' = "timeout"
  /\ UNCHANGED << mounted, user, sessionPending, selectionVars, cameraVars,
                  scanning, scanResult, realTimeAccuracy, detectionStats,
                  scanCount, closure, timers, analyzerVars, recentScans,
                  lastToast, store, fetches >>

\* Variant of AnalyzeImageRejects: without the finally block.
AnalyzeImageRejects_NoFinally ==
  /\ pc = "analyzeImage"
  /\ lastToast' = "error"
  /\ closure' = None
  /\ pc' = "idle"
  /\ scanLog' = [scanLog EXCEPT ![scanCount].status = "failed",
                                ![scanCount].errorToasts = @ + 1]
  /\ UNCHANGED << mounted, user, sessionPending, selectionVars, cameraVars,
                  analysisResult, detectedDisease, scanning, analysisProgress,
                  imageAnalysis, plantHealth, scanResult, realTimeAccuracy,
                  detectionStats, scanCount, timers, shownFrom, analyzerVars,
                  recentScans, store, fetches >>

\* analyzeImage rejects (the file cannot be read or decoded): the catch
\* block shows the error, the finally block sets scanning to false.
AnalyzeImageRejects ==
  /\ pc = "analyzeImage"
  /\ lastToast' = "error"
  /\ scanning' = FALSE
  /\ closure' = None
  /\ pc' = "idle"
  /\ scanLog' = [scanLog EXCEPT ![scanCount].status = "failed",
                                ![scanCount].errorToasts = @ + 1]
  /\ UNCHANGED << mounted, user, sessionPending, selectionVars, cameraVars,
                  analysisResult, detectedDisease, analysisProgress, imageAnalysis,
                  plantHealth, scanResult, realTimeAccuracy, detectionStats,
                  scanCount, timers, shownFrom, analyzerVars, recentScans, store,
                  fetches >>

\* Variant of TimeoutElapsed: the result is set before the row is handed
\* to insert().
TimeoutElapsed_RendersFirst ==
  /\ pc = "timeout"
  /\ analysisProgress' = 100
  /\ realTimeAccuracy' = Min(analysisResult.confidence, AccuracyCap)
  /\ scanResult' = EnhancedResult(detectedDisease, analysisResult)
  /\ shownFrom' = [shownFrom EXCEPT !.scanResult = scanCount]
  /\ scanLog' = [scanLog EXCEPT ![scanCount].insertAttempts = @ + 1,
                                ![scanCount].stages = Append(@, "persist")]
  /\ pc' = "insert"
  /\ UNCHANGED << mounted, user, sessionPending, selectionVars, cameraVars,
                  analysisResult, detectedDisease, scanning, imageAnalysis,
                  plantHealth, detectionStats, scanCount, closure, timers,
                  analyzerVars, recentScans, lastToast, store, fetches >>

\* The 500 ms timeout fires: progress 100, realTimeAccuracy set, the row
\* handed to insert().
TimeoutElapsed ==
  /\ pc = "timeout"
  /\ analysisProgress' = 100
  /\ realTimeAccuracy' = Min(analysisResult.confidence, AccuracyCap)
  /\ scanLog' = [scanLog EXCEPT ![scanCount].insertAttempts = @ + 1,
                                ![scanCount].stages = Append(@, "persist")]
  /\ pc' = "insert"
  /\ UNCHANGED << mounted, user, sessionPending, selectionVars, cameraVars,
                  analysisResult, detectedDisease, scanning, imageAnalysis,
                  plantHealth, scanResult, detectionStats, scanCount, closure,
                  timers, shownFrom, analyzerVars, recentScans, lastToast, store,
                  fetches >>

\* Variant of InsertSettles: an insert error other than 42703 is thrown,
\* so the catch block reports the scan as failed and no result is set.
InsertSettles_ThrowsOnError ==
  /\ pc = "insert"
  /\ \E error \in InsertErrors :
       /\ store' = insert(store, error, InsertRow(scanCount, closure.user,
                                                   detectedDisease, analysisResult))
       /\ IF error = "other"
            THEN /\ scanLog' = [scanLog EXCEPT ![scanCount].status = "failed",
                                               ![scanCount].insertError = error,
                                               ![scanCount].errorToasts = @ + 1]
                 /\ lastToast' = "error"
                 /\ UNCHANGED << scanResult, detectionStats, fetches, shownFrom >>
            ELSE /\ scanLog' = [scanLog EXCEPT ![scanCount].status = "completed",
                                               ![scanCount].insertError = error,
                                               ![scanCount].stages = Append(@, "render")]
                 /\ scanResult' = EnhancedResult(detectedDisease, analysisResult)
                 /\ detectionStats' =
                      [totalScans |-> detectionStats.totalScans + 1,
                       accurateDetections |-> detectionStats.accurateDetections
                                                + Bit(closure.realTimeAccuracy > AccurateAbove),
                       confidenceSum |-> detectionStats.confidenceSum
                                           + closure.realTimeAccuracy]
                 /\ fetches' = FetchCalled
                 /\ lastToast' = "complete"
                 /\ shownFrom' = [shownFrom EXCEPT !.scanResult = scanCount]
  /\ scanning' = FALSE
  /\ closure' = None
  /\ pc' = "idle"
  /\ UNCHANGED << mounted, user, sessionPending, selectionVars, cameraVars,
                  analysisResult, detectedDisease, analysisProgress, imageAnalysis,
                  plantHealth, realTimeAccuracy, scanCount, timers, analyzerVars,
                  recentScans >>

\* Variant of InsertSettles: without the finally block.
InsertSettles_NoFinally ==
  /\ pc = "insert"
  /\ \E error \in InsertErrors :
       /\ store' = insert(store, error, InsertRow(scanCount, closure.user,
                                                   detectedDisease, analysisResult))
       /\ scanLog' = [scanLog EXCEPT ![scanCount].status = "completed",
                                     ![scanCount].insertError = error,
                                     ![scanCount].stages = Append(@, "render")]
  /\ scanResult' = EnhancedResult(detectedDisease, analysisResult)
  /\ detectionStats' =
       [totalScans |-> detectionStats.totalScans + 1,
        accurateDetections |-> detectionStats.accurateDetections
                                 + Bit(closure.realTimeAccuracy > AccurateAbove),
        confidenceSum |-> detectionStats.confidenceSum + closure.realTimeAccuracy]
  /\ fetches' = FetchCalled
  /\ lastToast' = "complete"
  /\ shownFrom' = [shownFrom EXCEPT !.scanResult = scanCount]
  /\ closure' = None
  /\ pc' = "idle"
  /\ UNCHANGED << mounted, user, sessionPending, selectionVars, cameraVars,
                  analysisResult, detectedDisease, scanning, analysisProgress,
                  imageAnalysis,
                  plantHealth, realTimeAccuracy, scanCount, timers, analyzerVars,
                  recentScans >>

\* insert() settles, with or without an error (an error other than 42703
\* is only logged): scanImage sets scanResult, updates detectionStats with
\* the realTimeAccuracy its closure captured, calls fetchRecentScans, shows
\* the completion notice and, in the finally block, sets scanning to false.
InsertSettles ==
  /\ pc = "insert"
  /\ \E error \in InsertErrors :
       /\ store' = insert(store, error, InsertRow(scanCount, closure.user,
                                                   detectedDisease, analysisResult))
       /\ scanLog' = [scanLog EXCEPT ![scanCount].status = "completed",
                                     ![scanCount].insertError = error,
                                     ![scanCount].stages = Append(@, "render")]
  /\ scanResult' = EnhancedResult(detectedDisease, analysisResult)
  /\ detectionStats' =
       [totalScans |-> detectionStats.totalScans + 1,
        accurateDetections |-> detectionStats.accurateDetections
                                 + Bit(closure.realTimeAccuracy > AccurateAbove),
        confidenceSum |-> detectionStats.confidenceSum + closure.realTimeAccuracy]
  /\ fetches' = FetchCalled
  /\ lastToast' = "complete"
  /\ shownFrom' = [shownFrom EXCEPT !.scanResult = scanCount]
  /\ scanning' = FALSE
  /\ closure' = None
  /\ pc' = "idle"
  /\ UNCHANGED << mounted, user, sessionPending, selectionVars, cameraVars,
                  analysisResult, detectedDisease, analysisProgress, imageAnalysis,
                  plantHealth, realTimeAccuracy, scanCount, timers, analyzerVars,
                  recentScans >>

\* The query of one fetchRecentScans call runs on the table.
FetchReads ==
  /\ fetches.sent > 0
  /\ fetches' = [sent |-> fetches.sent - 1,
                 read |-> fetches.read \cup {RecentRows(store, user)}]
  /\ UNCHANGED << mounted, user, sessionPending, selectionVars, cameraVars,
                  scanVars, analyzerVars, recentScans, lastToast, store >>

\* A fetchRecentScans call gets an error: it is logged, nothing is set.
FetchFails ==
  /\ fetches.sent > 0
  /\ fetches' = [fetches EXCEPT !.sent = @ - 1]
  /\ UNCHANGED << mounted, user, sessionPending, selectionVars, cameraVars,
                  scanVars, analyzerVars, recentScans, lastToast, store >>

\* The rows of one fetchRecentScans call arrive: setRecentScans(data).
FetchResolves ==
  /\ \E rows \in fetches.read :
       /\ recentScans' = rows
       /\ fetches' = [fetches EXCEPT !.read = @ \ {rows}]
  /\ UNCHANGED << mounted, user, sessionPending, selectionVars, cameraVars,
                  scanVars, analyzerVars, lastToast, store >>

\* The scan with its progress interval.  The preview reader and the
\* answers to fetchRecentScans are left to SpecCamera and SpecRecent: they
\* set imagePreview, fetches and recentScans only, which no step here reads.
NextScan ==
  \/ GetSessionResolves
  \/ HandleImageSelect
  \/ ScanImageRejected
  \/ ScanImage
  \/ ProgressTick
  \/ AnalyzeImageResolves
  \/ AnalyzeImageRejects
  \/ TimeoutElapsed
  \/ InsertSettles

SpecScan == InitScan /\ [][NextScan]_vars

\* The scan where every step scanImage awaits settles: the decode of
\* analyzeImage resolves or rejects, the 500 ms timeout elapses, the insert
\* answers.  The progress interval is left to SpecScan: its ticks set
\* analysisProgress and timers only, which no step of scanImage reads.
NextSettling ==
  \/ GetSessionResolves
  \/ HandleImageSelect
  \/ ScanImageRejected
  \/ ScanImage
  \/ AnalyzeImageResolves
  \/ AnalyzeImageRejects
  \/ TimeoutElapsed
  \/ InsertSettles

SpecScanSettling ==
  /\ InitScan
  /\ [][NextSettling]_vars
  /\ WF_vars(AnalyzeImageResolves \/ AnalyzeImageRejects)
  /\ WF_vars(TimeoutElapsed)
  /\ WF_vars(InsertSettles)

\* The scan with the table and fetchRecentScans.  The progress interval is
\* left to SpecScan: it sets analysisProgress and timers only, which no
\* step here reads.
NextRecent ==
  \/ GetSessionResolves
  \/ HandleImageSelect
  \/ ScanImage
  \/ AnalyzeImageResolves
  \/ AnalyzeImageRejects
  \/ TimeoutElapsed
  \/ InsertSettles
  \/ FetchReads
  \/ FetchFails
  \/ FetchResolves

SpecRecent == InitScan /\ [][NextRecent]_vars

\* SpecRecent where no fetchRecentScans call gets an error: every query
\* that has run on the table delivers its rows.
NextRecentAnswered ==
  \/ GetSessionResolves
  \/ HandleImageSelect
  \/ ScanImage
  \/ AnalyzeImageResolves
  \/ AnalyzeImageRejects
  \/ TimeoutElapsed
  \/ InsertSettles
  \/ FetchReads
  \/ FetchResolves

SpecRecentAnswered == InitScan /\ [][NextRecentAnswered]_vars

\* ------------------------------------------------------------------------
\* The camera of the component
\* ------------------------------------------------------------------------

\* getUserMedia() calls in one run of the model.
MaxCameraRequests == 2

\* videoRef.current: the <video> element exists only while the component
\* is mounted and renders its camera branch (cameraMode true).
VideoElement == mounted /\ cameraMode

\* startCamera up to its await; the button calls it while cameraMode is
\* false.
StartCamera ==
  /\ mounted
  /\ ~cameraMode
  /\ cameraPending + liveStreams + cameraErrors < MaxCameraRequests
  /\ cameraPending' = cameraPending + 1
  /\ UNCHANGED << mounted, user, sessionPending, selectionVars, cameraMode,
                  liveStreams, videoSrc, cameraErrors, scanVars, analyzerVars,
                  recentScans, lastToast, store, fetches >>

\* getUserMedia() resolves with a live stream: with a <video> element the
\* stream is attached and cameraMode set, without one nothing is done.
GetUserMediaResolves ==
  /\ cameraPending > 0
  /\ cameraPending' = cameraPending - 1
  /\ liveStreams' = liveStreams + 1
  /\ IF VideoElement
       THEN videoSrc' = "stream" /\ cameraMode' = TRUE
       ELSE UNCHANGED << videoSrc, cameraMode >>
  /\ UNCHANGED << mounted, user, sessionPending, selectionVars, cameraErrors,
                  scanVars, analyzerVars, recentScans, lastToast, store, fetches >>

\* Variant of GetUserMediaRejects: camera mode is entered all the same.
GetUserMediaRejects_EntersCameraMode ==
  /\ cameraPending > 0
  /\ cameraPending' = cameraPending - 1
  /\ cameraErrors' = cameraErrors + 1
  /\ lastToast' = "camera"
  /\ cameraMode' = TRUE
  /\ UNCHANGED << mounted, user, sessionPending, selectionVars, liveStreams,
                  videoSrc, scanVars, analyzerVars, recentScans, store, fetches >>

\* getUserMedia() rejects: the "Camera Error" notice.
GetUserMediaRejects ==
  /\ cameraPending > 0
  /\ cameraPending' = cameraPending - 1
  /\ cameraErrors' = cameraErrors + 1
  /\ lastToast' = "camera"
  /\ UNCHANGED << mounted, user, sessionPending, selectionVars, cameraMode,
                  liveStreams, videoSrc, scanVars, analyzerVars, recentScans,
                  store, fetches >>

\* stopCamera: the attached stream's tracks are stopped, cameraMode off.
\* Its buttons exist only while cameraMode is true.
StopCamera ==
  /\ mounted
  /\ cameraMode
  /\ IF VideoElement /\ videoSrc # "null"
       THEN liveStreams' = liveStreams - 1 /\ videoSrc' = "null"
       ELSE UNCHANGED << liveStreams, videoSrc >>
  /\ cameraMode' = FALSE
  /\ UNCHANGED << mounted, user, sessionPending, selectionVars, cameraPending,
                  cameraErrors, scanVars, analyzerVars, recentScans, lastToast,
                  store, fetches >>

\* capturePhoto with its toBlob callback: the frame becomes the selected
\* image and the preview, then stopCamera.  Its button exists only while
\* cameraMode is true.
CapturePhoto ==
  /\ mounted
  /\ cameraMode
  /\ VideoElement
  /\ selectedImage' = "camera-capture.jpg"
  /\ imagePreview' = "camera-capture.jpg"
  /\ IF videoSrc # "null"
       THEN liveStreams' = liveStreams - 1 /\ videoSrc' = "null"
       ELSE UNCHANGED << liveStreams, videoSrc >>
  /\ cameraMode' = FALSE
  /\ UNCHANGED << mounted, user, sessionPending, previewReads, cameraPending,
                  cameraErrors, scanVars, analyzerVars, recentScans, lastToast,
                  store, fetches >>

\* The component leaves the page.  The mount effect returns no cleanup and
\* there is no other teardown code: nothing is released.
Unmount ==
  /\ mounted
  /\ mounted' = FALSE
  /\ UNCHANGED << user, sessionPending, selectionVars, cameraVars, scanVars,
                  analyzerVars, recentScans, lastToast, store, fetches >>

\* stopCamera and capturePhoto can be called only with cameraMode true,
\* which GetUserMediaResolves sets only when the <video> element exists
\* already, that is never: they do not run.
NextCamera ==
  \/ GetSessionResolves
  \/ HandleImageSelect
  \/ PreviewLoaded
  \/ StartCamera
  \/ GetUserMediaResolves
  \/ GetUserMediaRejects
  \/ Unmount

SpecCamera == InitScan /\ [][NextCamera]_vars

\* ------------------------------------------------------------------------
\* Properties
\* ------------------------------------------------------------------------

\* calculateHealthScore has returned.
Scored ==
  pc \in {"assessImageQuality", "returnResult", "assessPlantHealth", "selectDisease", "done"}

\* C1: for every combination of black-spot and damage statistics the health
\* score the scorer returns is an integer between 0 and 100, also when the
\* three deductions 40, 50 and 15 all apply.
C1_HealthScoreInRange == Scored => healthScore \in 0..100

\* The three deductions apply in full (100 - 40 - 50 - 15 < 0) and the
\* score is clamped to 0.
C1_Witness ==
  /\ Scored
  /\ blackSpotAnalysis.hasBlackSpots /\ blackSpotAnalysis.percentage >= 1334
  /\ damageAnalysis.hasDamage /\ damageAnalysis.percentage >= 2500
  /\ healthScore = 0

\* C2: for every image the damage percentage that assessDamage reports lies
\* between 0 and 100.
C2_DamagePercentageInRange ==
  damageAnalysis # None => damageAnalysis.percentage \in 0..10000

\* C3: the health score is 100, less min(3 * blackSpotPercentage, 40) only
\* when hasBlackSpots, less min(2 * damagePercentage, 50) only when
\* hasDamage, less 15 when blackSpotPercentage > 5 and damagePercentage > 10,
\* clamped to [0,100] and rounded to a nearest integer; it is determined by
\* these four inputs.
C3_ExactScore ==
  LET p == blackSpotAnalysis.percentage
      d == damageAnalysis.percentage
      spots == IF blackSpotAnalysis.hasBlackSpots
                 THEN (IF 3 * p < 4000 THEN 3 * p ELSE 4000) ELSE 0
      dmg == IF damageAnalysis.hasDamage
               THEN (IF 2 * d < 5000 THEN 2 * d ELSE 5000) ELSE 0
      both == IF p > 500 /\ d > 1000 THEN 1500 ELSE 0
      raw == 10000 - spots - dmg - both
      clamped == IF raw < 0 THEN 0 ELSE IF raw > 10000 THEN 10000 ELSE raw
  IN  Scored =>
        /\ healthScore \in 0..100
        /\ 100 * healthScore - clamped <= 50
        /\ clamped - 100 * healthScore <= 50

\* Both flags set, no cap reached, the combined penalty applies:
\* 100 - 26.1 - 46.8 - 15 = 12.1, scored 12.
C3_Witness ==
  /\ Scored
  /\ blackSpotAnalysis.hasBlackSpots /\ blackSpotAnalysis.percentage = 870
  /\ damageAnalysis.hasDamage /\ damageAnalysis.percentage = 2340
  /\ healthScore = 12

\* C4: of two inputs of the scorer that differ only in blackSpotPercentage,
\* the one with the larger percentage never gets the larger health score.
C4_Monotone ==
  (otherScore # -1 /\ otherPercentage >= blackSpotAnalysis.percentage)
    => otherScore <= healthScore

\* A larger percentage was scored and the score went strictly down.
C4_Witness ==
  /\ otherScore # -1
  /\ otherPercentage > blackSpotAnalysis.percentage
  /\ otherScore < healthScore

\* C5: the overall condition is healthy when healthScore >= 85 and neither
\* flag is set, else mild_damage when healthScore >= 70, else moderate_damage
\* when >= 50, else severe_damage when >= 30, else critical.
C5_ConditionThresholds ==
  analysisResult # None =>
    LET hs == analysisResult.healthScore
        clean == ~analysisResult.hasBlackSpots /\ ~analysisResult.hasDamage
        c == analysisResult.overallCondition
    IN  /\ c \in {"healthy", "mild_damage", "moderate_damage", "severe_damage", "critical"}
        /\ c = "healthy" <=> (hs >= 85 /\ clean)
        /\ c = "mild_damage" <=> (hs >= 70 /\ ~(hs >= 85 /\ clean))
        /\ c = "moderate_damage" <=> (hs >= 50 /\ hs < 70)
        /\ c = "severe_damage" <=> (hs >= 30 /\ hs < 50)
        /\ c = "critical" <=> hs < 30

\* A score of at least 85 with a flag set falls through to mild_damage.
C5_Witness ==
  /\ analysisResult # None
  /\ analysisResult.healthScore >= 85
  /\ analysisResult.hasBlackSpots
  /\ analysisResult.overallCondition = "mild_damage"

\* C6: the disease selector is an ordered lookup: black spots above 2 % give
\* Black Spot Disease with min(0.95, c/100); else damage above 10 % gives
\* Powdery Mildew with min(0.88, c/100); else healthScore < 60 gives
\* Bacterial Leaf Spot with min(0.82, c/100); else healthScore >= 85 gives
\* Healthy Plant with 0.95; else Powdery Mildew with min(0.75, c/100).  3 %
\* black spots without damage select Black Spot Disease and 12 % damage
\* without black spots selects Powdery Mildew.
C6_DiseaseLookup ==
  detectedDisease # None =>
    LET r == analysisResult
        c == r.confidence
        b1 == r.hasBlackSpots /\ r.blackSpotPercentage > 200
        b2 == ~b1 /\ r.hasDamage /\ r.damagePercentage > 1000
        b3 == ~b1 /\ ~b2 /\ r.healthScore < 60
        b4 == ~b1 /\ ~b2 /\ ~b3 /\ r.healthScore >= 85
        b5 == ~b1 /\ ~b2 /\ ~b3 /\ ~b4
        cap(m) == IF c < m THEN c ELSE m
        is(n, k) == detectedDisease.name = n /\ detectedDisease.confidence = k
    IN  /\ b1 => is("Black Spot Disease", cap(9500))
        /\ b2 => is("Powdery Mildew", cap(8800))
        /\ b3 => is("Bacterial Leaf Spot", cap(8200))
        /\ b4 => is("Healthy Plant", 9500)
        /\ b5 => is("Powdery Mildew", cap(7500))
        /\ (r.hasBlackSpots /\ r.blackSpotPercentage = 300 /\ r.damagePercentage = 0)
             => detectedDisease.name = "Black Spot Disease"
        /\ (r.hasDamage /\ r.blackSpotPercentage = 0 /\ r.damagePercentage = 1200)
             => detectedDisease.name = "Powdery Mildew"

\* 3 % black spots, no damage, a confidence below the cap: Black Spot
\* Disease with that confidence.
C6_Witness ==
  /\ detectedDisease # None
  /\ analysisResult.hasBlackSpots /\ analysisResult.blackSpotPercentage = 300
  /\ ~analysisResult.hasDamage /\ analysisResult.damagePercentage = 0
  /\ analysisResult.confidence = 9000
  /\ detectedDisease.name = "Black Spot Disease"
  /\ detectedDisease.confidence = 9000

\* C7 as stated: the flags agree with the reported, rounded percentages:
\* hasBlackSpots exactly when blackSpotPercentage > 0.1 and hasDamage
\* exactly when damagePercentage > 0.5.
C7_FlagsAgreeWithReported ==
  analysisResult # None =>
    /\ analysisResult.hasBlackSpots <=> analysisResult.blackSpotPercentage > 10
    /\ analysisResult.hasDamage <=> analysisResult.damagePercentage > 50

\* C7 amended: the flags follow the unrounded percentages: hasBlackSpots
\* exactly when 100 * blackSpotPixels / totalPixels > 0.1 and hasDamage
\* exactly when 100 * damagedPixels / totalPixels > 0.5; of the reported
\* values, one above the threshold implies the flag and the flag implies a
\* value of at least the threshold.
C7_FlagsFollowUnrounded ==
  analysisResult # None =>
    LET total == imageData.width * imageData.height
        r == analysisResult
    IN  /\ r.hasBlackSpots <=> 1000 * blackSpotPixels(imageData.data) > total
        /\ r.hasDamage <=> 200 * damagedPixels(imageData.data) > total
        /\ r.blackSpotPercentage > 10 => r.hasBlackSpots
        /\ r.hasBlackSpots => r.blackSpotPercentage >= 10
        /\ r.damagePercentage > 50 => r.hasDamage
        /\ r.hasDamage => r.damagePercentage >= 50

\* Flags set while the reported percentages sit exactly on the thresholds.
C7_Witness ==
  /\ analysisResult # None
  /\ analysisResult.hasBlackSpots /\ analysisResult.blackSpotPercentage = 10
  /\ analysisResult.hasDamage /\ analysisResult.damagePercentage = 50

\* No pixel of the image has brightness < 60 and colorVariation < 30.
NoBlackSpotPixel ==
  \A i \in DOMAIN imageData.data :
    LET px == imageData.data[i][1]
        spread == Abs(px[1] - px[2]) + Abs(px[2] - px[3]) + Abs(px[3] - px[1])
    IN  ~(px[1] + px[2] + px[3] < 180 /\ spread < 30)

\* C8: an image without a pixel matching the black-spot predicate gets
\* hasBlackSpots = false and blackSpotCount = 0, and whenever hasBlackSpots
\* is true the reported count is at least 1.
C8_NoSpotsNoCount ==
  blackSpotAnalysis # None =>
    /\ NoBlackSpotPixel => (~blackSpotAnalysis.hasBlackSpots /\ blackSpotAnalysis.count = 0)
    /\ blackSpotAnalysis.hasBlackSpots => blackSpotAnalysis.count >= 1

\* An image with pixels of brightness exactly 60 (just outside the
\* predicate) and none inside it has been analysed.
C8_Witness ==
  /\ blackSpotAnalysis # None
  /\ NoBlackSpotPixel
  /\ \E i \in DOMAIN imageData.data : imageData.data[i][1] = <<60, 60, 60>>
  /\ blackSpotAnalysis.count = 0

\* Every pixel of the image is r = g = b = 0.
AllBlack ==
  /\ imageData # NoImage
  /\ \A i \in DOMAIN imageData.data : imageData.data[i][1] = <<0, 0, 0>>

\* C9 (scenario A): an all-black image has blackSpotPercentage = 100,
\* hasBlackSpots, no damage, health score 60 (the spot deduction capped at
\* 40, no combined penalty) and overall condition moderate_damage.
C9_AllBlackImage ==
  AllBlack =>
    /\ blackSpotAnalysis # None =>
         (blackSpotAnalysis.hasBlackSpots /\ blackSpotAnalysis.percentage = 10000)
    /\ damageAnalysis # None =>
         (~damageAnalysis.hasDamage /\ damageAnalysis.percentage = 0)
    /\ Scored => healthScore = 60
    /\ analysisResult # None => analysisResult.overallCondition = "moderate_damage"

C9_Witness ==
  /\ AllBlack
  /\ imageData.width = 100 /\ imageData.height = 10
  /\ analysisResult # None
  /\ analysisResult.healthScore = 60

\* C10: a result with black spots at 8.7 % coverage and 23.4 % damage has
\* health score 34, status severe_damage and urgency high.
C10_DocumentedExample ==
  (/\ analysisResult # None
   /\ analysisResult.hasBlackSpots
   /\ analysisResult.blackSpotPercentage = 870
   /\ analysisResult.damagePercentage = 2340)
    => /\ analysisResult.healthScore = 34
       /\ analysisResult.overallCondition = "severe_damage"
       /\ plantHealth # None => plantHealth.urgency = "high"

\* C11: for every result the analyzer produces, the selector returns
\* 'Healthy Plant' exactly when hasBlackSpots = false and hasDamage = false.
C11_HealthyIffNoIssues ==
  detectedDisease # None =>
    (detectedDisease.name = "Healthy Plant"
       <=> (~analysisResult.hasBlackSpots /\ ~analysisResult.hasDamage))

\* C12: while no image is selected or no user is signed in, no step, the
\* call of scanImage included, starts the analysis or a progress interval,
\* writes a row or changes scanning, analysisProgress, imageAnalysis,
\* plantHealth, scanResult or detectionStats, and the only notice a step
\* shows is the validation error.
C12_RejectedBeforeWork ==
  [][(selectedImage = "null" \/ user = "null") =>
       /\ UNCHANGED << pc, scanLog, timers, store, scanning, analysisProgress,
                       imageAnalysis, plantHealth, scanResult, detectionStats >>
       /\ lastToast' # lastToast => lastToast' = "validation"]_vars

\* scanImage was called with an image selected and nobody signed in.
C12_Witness ==
  /\ lastToast = "validation"
  /\ selectedImage # "null"
  /\ ~sessionPending /\ user = "null"
  /\ ~scanning /\ scanCount = 0 /\ timers = {}

\* C13: a scan whose decoding failed has shown its error exactly once,
\* called analyzeImage once, attempted no insert and left no row; the step
\* in which analyzeImage rejects shows the error, sets scanning to false and
\* leaves imageAnalysis, plantHealth, scanResult, detectionStats and the
\* table as they were.
C13_DecodeFailureTerminal ==
  /\ [](\A k \in DOMAIN scanLog :
          scanLog[k].status = "failed" =>
            /\ scanLog[k].errorToasts = 1
            /\ scanLog[k].analyzeCalls = 1
            /\ scanLog[k].insertAttempts = 0
            /\ \A i \in DOMAIN store : store[i].scan # k)
  /\ [][(pc = "analyzeImage" /\ scanLog'[scanCount].status = "failed") =>
          /\ lastToast' = "error"
          /\ scanning' = FALSE
          /\ UNCHANGED << imageAnalysis, plantHealth, scanResult, detectionStats,
                          store >>]_vars

\* The second scan failed to decode after the first had completed: the
\* first scan's analysis and result are still held.
C13_Witness ==
  /\ scanCount = 2
  /\ scanLog[1].status = "completed"
  /\ scanLog[2].status = "failed"
  /\ shownFrom = [imageAnalysis |-> 1, plantHealth |-> 1, scanResult |-> 1]
  /\ scanResult # None
  /\ ~scanning

\* C14: the step in which a scan's insert reports an error, 42703 or any
\* other, sets scanResult from that scan's disease and analysis, leaves
\* imageAnalysis and plantHealth as that scan set them, writes no row and
\* shows the completion notice, not an error.
C14_PersistenceFailureKeepsResult ==
  [][(pc = "insert" /\ scanLog'[scanCount].insertError \in {"42703", "other"}) =>
       /\ scanResult' = EnhancedResult(detectedDisease, analysisResult)
       /\ shownFrom' = [imageAnalysis |-> scanCount, plantHealth |-> scanCount,
                        scanResult |-> scanCount]
       /\ UNCHANGED << imageAnalysis, plantHealth, store >>
       /\ imageAnalysis = analysisResult
       /\ plantHealth = assessPlantHealth(analysisResult)
       /\ scanLog'[scanCount].status = "completed"
       /\ scanLog'[scanCount].errorToasts = 0
       /\ lastToast' = "complete"
       /\ scanning' = FALSE]_vars

\* A scan whose insert reported an error other than 42703 has completed
\* with a diseased result on display.
C14_Witness ==
  /\ scanCount >= 1
  /\ scanLog[scanCount].status = "completed"
  /\ scanLog[scanCount].insertError = "other"
  /\ shownFrom.scanResult = scanCount
  /\ scanResult.disease.name = "Black Spot Disease"
  /\ \A i \in DOMAIN store : store[i].scan # scanCount

\* The rows of the table that scan k wrote.
RowsOf(k) == {i \in DOMAIN store : store[i].scan = k}

\* The scans that completed: scanResult was set from them.
CompletedScans == {k \in DOMAIN scanLog : scanLog[k].status = "completed"}

\* C15: the number of rows written in this session equals the number of
\* scans that completed, each scan makes at most one insert attempt, and a
\* scan that did not complete writes none.
C15_OneRecordPerCompletedScan ==
  /\ Cardinality({i \in DOMAIN store : store[i].scan > 0}) = Cardinality(CompletedScans)
  /\ \A k \in DOMAIN scanLog :
       /\ scanLog[k].insertAttempts <= 1
       /\ k \notin CompletedScans => RowsOf(k) = {}

\* C15 amended: every scan makes at most one insert attempt, a completed
\* scan exactly one and a scan whose decoding failed none; a scan has one
\* row in the table when it completed and its insert reported no error,
\* and no row otherwise, so the rows written never outnumber the completed
\* scans.
C15_RecordsFollowInserts ==
  /\ \A k \in DOMAIN scanLog :
       /\ scanLog[k].insertAttempts <= 1
       /\ k \in CompletedScans => scanLog[k].insertAttempts = 1
       /\ scanLog[k].status = "failed" => scanLog[k].insertAttempts = 0
       /\ Cardinality(RowsOf(k)) =
            Bit(k \in CompletedScans /\ scanLog[k].insertError = "none")
  /\ \A i \in DOMAIN store : store[i].scan \in 0..scanCount
  /\ Cardinality({i \in DOMAIN store : store[i].scan > 0}) <= Cardinality(CompletedScans)

\* Two scans completed, the first with error 42703 from its insert, the
\* second with none: one row was written.
C15_Witness ==
  /\ scanCount = 2
  /\ CompletedScans = {1, 2}
  /\ scanLog[1].insertError = "42703"
  /\ scanLog[2].insertError = "none"
  /\ RowsOf(1) = {} /\ Cardinality(RowsOf(2)) = 1

\* The stages of a scan in the order the specification gives them.
StageOrder == <<"decode", "analyze", "score", "classify", "persist", "render">>

\* The stages scan k has started are the first ones of StageOrder, in order.
StagesInOrder(k) ==
  /\ Len(scanLog[k].stages) <= Len(StageOrder)
  /\ scanLog[k].stages = SubSeq(StageOrder, 1, Len(scanLog[k].stages))

\* The insert of scan k has settled.
Persisted(k) == scanLog[k].status = "completed"

C17_NoStreamLeftLive ==
  (~cameraMode \/ ~mounted) => liveStreams = 0

\* C18: the step in which getUserMedia() fails shows one "Camera Error"
\* notice, leaves cameraMode false, acquires and attaches no stream, and
\* leaves selectedImage, imagePreview and all scan state unchanged.
C18_CameraFailureOnlyNotifies ==
  [][(cameraPending' < cameraPending /\ liveStreams' = liveStreams) =>
       /\ cameraErrors' = cameraErrors + 1
       /\ lastToast' = "camera"
       /\ cameraMode' = FALSE
       /\ videoSrc' = "null"
       /\ UNCHANGED << liveStreams, selectedImage, imagePreview, scanVars, store,
                       recentScans >>]_vars

\* The camera failed after an image had been selected and previewed.
C18_Witness ==
  /\ cameraErrors = 1
  /\ lastToast = "camera"
  /\ selectedImage = "leaf.jpg" /\ imagePreview = "leaf.jpg"
  /\ ~cameraMode /\ liveStreams = 0 /\ cameraPending = 0

\* C19: once a new scan has started, the ScanResult of the previous scan is
\* no longer held: a held scanResult comes from the scan started last.
C19_ResultDiscardedAtScanStart ==
  scanResult # None => shownFrom.scanResult = scanCount

C21_ClassifiersDisagree ==
  (/\ plantHealth # None
   /\ analysisResult.healthScore = 72
   /\ analysisResult.hasBlackSpots)
    => /\ analysisResult.overallCondition = "mild_damage"
       /\ plantHealth.urgency \in {"low", "medium"}
       /\ plantHealth.urgency = "medium" <=> analysisResult.blackSpotPercentage >= 500

\* An image with 9.2 % black-spot pixels has been analysed: score 72,
\* mild_damage, urgency medium.
C21_Witness ==
  /\ plantHealth # None
  /\ imageData # NoImage
  /\ analysisResult.healthScore = 72
  /\ analysisResult.hasBlackSpots
  /\ analysisResult.overallCondition = "mild_damage"
  /\ plantHealth.urgency = "medium"

\* Neither the black-spot branch nor the damage branch of the selector
\* fires on result r.
NeitherBranchFires(r) ==
  /\ ~(r.hasBlackSpots /\ r.blackSpotPercentage > 200)
  /\ ~(r.hasDamage /\ r.damagePercentage > 1000)

\* C22: for every result the analyzer produces the selector does not
\* select Bacterial Leaf Spot: when neither of the first two branches
\* fires the health score is at least 74, so the third branch
\* (healthScore < 60) is not taken, and the selected entry has an urgency.
C22_BacterialLeafSpotUnreachable ==
  /\ analysisResult # None =>
       (NeitherBranchFires(analysisResult) => analysisResult.healthScore >= 74)
  /\ detectedDisease # None =>
       /\ detectedDisease.name # "Bacterial Leaf Spot"
       /\ detectedDisease.urgency # "undefined"

\* A result with both flags set on which neither of the first two
\* branches fires has gone through the selector.
C22_Witness ==
  /\ detectedDisease # None
  /\ analysisResult.hasBlackSpots /\ analysisResult.hasDamage
  /\ NeitherBranchFires(analysisResult)
  /\ analysisResult.healthScore < 100

\* The scans whose pipeline is running.
RunningScans == {k \in DOMAIN scanLog : scanLog[k].status = "running"}

\* C23: at most one scan pipeline is in flight: scanning is true exactly
\* while scanImage is between its start and its finally block, exactly one
\* started scan is running then and none otherwise, and the running scan
\* was started with an image selected and a user signed in; a scan starts
\* only from a state where scanning is false and no scan is running.
C23_OneScanInFlight ==
  /\ scanning <=> pc # "idle"
  /\ Cardinality(RunningScans) = (IF scanning THEN 1 ELSE 0)
  /\ RunningScans \subseteq {Len(scanLog)}
  /\ scanning => /\ closure # None
                 /\ closure.selectedImage # "null"
                 /\ closure.user # "null"

\* A second scan is running after the first one has ended.
C23_Witness ==
  /\ scanning
  /\ Len(scanLog) = 2
  /\ scanLog[1].status # "running"
  /\ scanLog[2].status = "running"

\* C24: provided each step scanImage awaits settles, every started scan
\* ends, and at its end scanning is false: on success, on decode failure
\* and on persistence failure alike.
C24_StartedScanEnds ==
  \A k \in 1..MaxScans :
    (Len(scanLog) >= k /\ scanLog[k].status = "running")
      ~> (Len(scanLog) >= k /\ scanLog[k].status # "running" /\ ~scanning)

\* A scan that failed to decode and a scan whose insert reported an error
\* have both ended, with scanning false.
C24_Witness ==
  /\ ~scanning
  /\ Len(scanLog) = 2
  /\ scanLog[1].status = "failed"
  /\ scanLog[2].status = "completed"
  /\ scanLog[2].insertError # "none"

\* C25: at most one progress interval is active at any time: an interval is
\* the current scan's while a scan is running, and none is left once the
\* scan that started it has ended.
C25_OneProgressTimer ==
  /\ Cardinality(timers) <= 1
  /\ scanning => timers \subseteq {scanCount}
  /\ ~scanning => timers = {}

\* C26: analysisProgress stays within [0, 100]; while one scan runs no
\* step, tick or explicit update, decreases it; and once it is 100 it
\* stays 100 until the next scan starts.
C26_ProgressMonotone ==
  [][/\ analysisProgress' \in 0..100
     /\ (scanning /\ scanCount' = scanCount)
          => analysisProgress' >= analysisProgress
     /\ (analysisProgress = 100 /\ scanCount' = scanCount)
          => analysisProgress' = 100]_vars

\* C27: whenever imageAnalysis, plantHealth and scanResult are all set,
\* they were set by the same scan.
C27_DisplayedFromOneScan ==
  (imageAnalysis # None /\ plantHealth # None /\ scanResult # None)
    => /\ shownFrom.imageAnalysis = shownFrom.plantHealth
       /\ shownFrom.plantHealth = shownFrom.scanResult

\* The accuracy scan k computed for itself.
OwnAccuracy(k) == Min(scanLog[k].result.confidence, AccuracyCap)

\* C28: the detection statistics are exact: totalScans is the number of
\* completed scans, accurateDetections the number of them whose own
\* accuracy is above 80 %, the confidence sum (avgConfidence times
\* totalScans) the sum of their own accuracies; accurateDetections never
\* exceeds totalScans.
C28_StatsExact ==
  /\ detectionStats.totalScans = Cardinality(CompletedScans)
  /\ detectionStats.accurateDetections
       = Cardinality({k \in CompletedScans : OwnAccuracy(k) > AccurateAbove})
  /\ detectionStats.confidenceSum
       = SumOver([k \in CompletedScans |-> OwnAccuracy(k)], CompletedScans)
  /\ detectionStats.accurateDetections <= detectionStats.totalScans

\* C29: after a completed scan whose insert succeeded, once no
\* fetchRecentScans call is outstanding (each has run its query and
\* delivered its rows), recentScans holds at most RecentLimit rows and its
\* first row is that scan's record.
C29_NewestScanFirst ==
  (/\ pc = "idle"
   /\ scanCount >= 1
   /\ scanLog[scanCount].status = "completed"
   /\ scanLog[scanCount].insertError = "none"
   /\ fetches.sent = 0 /\ fetches.read = {})
    => /\ Len(recentScans) <= RecentLimit
       /\ Len(recentScans) >= 1
       /\ recentScans[1].scan = scanCount

\* C30: for every result the analyzer produces, overallCondition is
\* healthy exactly when healthScore is 100 and exactly when the assessed
\* urgency is none; no result with a score of 85 to 99 is healthy.
C30_HealthyIffFullScore ==
  plantHealth # None =>
    /\ analysisResult.overallCondition = "healthy" <=> analysisResult.healthScore = 100
    /\ analysisResult.overallCondition = "healthy" <=> plantHealth.urgency = "none"
    /\ analysisResult.healthScore \in 85..99
         => analysisResult.overallCondition # "healthy"

====
